---- MODULE Spec2Model ----
(***************************************************************************)
(* Identipattern: a model of packages/core/src/core.ts                     *)
(* (generateIdentipattern and its helpers) and of the canvas facade        *)
(* (toCanvas).                                                             *)
(*                                                                         *)
(* Numbers.  JavaScript numbers are modelled exactly, as integers:         *)
(*  - the accumulator of hashSegment is a pair <<q, r>> standing for       *)
(*    q * 2^16 + r with r in 0..65535 (q may be negative or exceed 2^16,   *)
(*    as the double in the code may leave the 32-bit range);               *)
(*  - lengths are numerators over 4000 px (every constant of the layout   *)
(*    is a multiple of size/4000), emitted coordinates are hundredths of   *)
(*    a pixel, as toFixed(2) prints them;                                  *)
(*  - amplitude is in 1/100000, gamma and ampScale in 1/100, the gap and   *)
(*    the stroke thickness in 1/1000 px.                                   *)
(* The sampled sine of tuneWaves and radialAt is not computed: the gap     *)
(* tuneWaves measures is an input of each iteration, and a wave path is    *)
(* recorded by its number of points.                                       *)
(***************************************************************************)
EXTENDS Integers, Sequences, FiniteSets, TLC

VARIABLES
  pc,          \* position in generateIdentipattern
  hashHex,     \* argument: the hash, a sequence of characters
  size,        \* option size (px)
  showGrid,    \* option showGrid
  err,         \* the message of the Error thrown, "" if none
  bytes,       \* const bytes (0-indexed in the code, 1-indexed here)
  prm,         \* freq1, pseudo, amplitude, innerAccent, centerHollow, keepout, curveMaxPx
  tune,        \* tuneWaves' locals: f1, gamma, ampScale, iter, and the steps taken
  waves,       \* nWaves, freq2
  parts,       \* const parts: string[], one record per pushed element
  idx,         \* loop counter (w of the wave loop, i of the block loop)
  result,      \* the string returned: the joined parts
  hIn,         \* hashSegment called alone: bytes, start, length
  hOut,        \* its state and return value
  cv           \* toCanvas: one record per call

vars == <<pc, hashHex, size, showGrid, err, bytes, prm, tune, waves, parts, idx,
          result, hIn, hOut, cv>>
genVars == <<pc, hashHex, size, showGrid, err, bytes, prm, tune, waves, parts, idx, result>>

\* ------------------------------------------------------------------ bounds
MaxLen == 8
MaxCalls == 2

\* ------------------------------------------------------------ arithmetic
Max(a, b) == IF a >= b THEN a ELSE b
Min(a, b) == IF a <= b THEN a ELSE b

Pow2(n) == 2 ^ n

\* a & b for non-negative a, b
RECURSIVE BitAnd(_, _)
BitAnd(a, b) ==
  IF a = 0 \/ b = 0 THEN 0
  ELSE (a % 2) * (b % 2) + 2 * BitAnd(a \div 2, b \div 2)

\* a >> n for non-negative a
ShiftRight(a, n) == a \div Pow2(n)

W16 == 256 * 256

\* numbers of hashSegment: <<q, r>> is q * 2^16 + r
Num(n) == <<n \div W16, n % W16>>
ToUint32(h) == <<h[1] % W16, h[2]>>
\* h << n: the operand is taken to 32 bits, shifted, and the result is an int32
ShiftLeft(h, n) ==
  LET lo == h[2] * Pow2(n)
      hi == ((h[1] % W16) * Pow2(n) + lo \div W16) % W16
  IN <<IF hi >= Pow2(15) THEN hi - W16 ELSE hi, lo % W16>>
\* a + b on doubles holding integers below 2^53: exact
Plus(a, b) ==
  LET s == a[2] + b[2]
  IN <<a[1] + b[1] + s \div W16, s % W16>>
\* u % m for a non-negative u and 0 < m <= 2^15
ModNum(u, m) == ((u[1] % m) * (W16 % m) + u[2]) % m

\* Min(cap, floor of the square root of x), x >= 0
SqrtUpTo(x, cap) == CHOOSE r \in 0..cap : r * r <= x /\ (r = cap \/ (r + 1) * (r + 1) > x)
\* num / den (num >= 0, den > 0) rounded to the nearest integer, halves up
RoundDiv(num, den) == (2 * num + den) \div (2 * den)

Rep(x, n) == [k \in 1..n |-> x]

\* ------------------------------------------------------------ characters
Digits == <<"0", "1", "2", "3", "4", "5", "6", "7", "8", "9">>
LowerLetters == <<"a", "b", "c", "d", "e", "f", "g">>
UpperLetters == <<"A", "B", "C", "D", "E", "F", "G">>
Range(f) == {f[k] : k \in DOMAIN f}

\* String.prototype.toLowerCase / toUpperCase on one character
toLowerCase(ch) ==
  IF ch \in Range(UpperLetters)
  THEN LowerLetters[CHOOSE k \in DOMAIN UpperLetters : UpperLetters[k] = ch]
  ELSE ch
toUpperCase(ch) ==
  IF ch \in Range(LowerLetters)
  THEN UpperLetters[CHOOSE k \in DOMAIN LowerLetters : LowerLetters[k] = ch]
  ELSE ch

\* the value of a hexadecimal digit, -1 for any other character
HexDigit(ch) ==
  IF ch \in Range(Digits) THEN (CHOOSE k \in DOMAIN Digits : Digits[k] = ch) - 1
  ELSE IF ch \in {LowerLetters[k] : k \in 1..6}
       THEN 9 + (CHOOSE k \in 1..6 : LowerLetters[k] = ch)
  ELSE IF ch \in {UpperLetters[k] : k \in 1..6}
       THEN 9 + (CHOOSE k \in 1..6 : UpperLetters[k] = ch)
  ELSE -1

\* ---------------------------------------------------- /^[0-9a-f]{64}$/i
HashLen == 64
\* the class [0-9a-f]
HexClass == Range(Digits) \cup {LowerLetters[k] : k \in 1..6}
\* the class test without the flag i
ClassMatchesExact(ch) == ch \in HexClass
\* with the flag i a character matches the class when their canonical forms
\* (upper case) agree
ClassMatchesI(ch) == \E m \in HexClass : toUpperCase(m) = toUpperCase(ch)
\* regex.test(hashHex): between the anchors ^ and $, exactly HashLen
\* characters of the class
HashRegexTest(s) == Len(s) = HashLen /\ \A k \in 1..HashLen : ClassMatchesI(s[k])

\* ------------------------------------------------------------ parseBytes
\* parseInt(two characters, 16) || 0: the longest prefix of digits, NaN -> 0
ParseHexPair(c1, c2) ==
  IF HexDigit(c1) < 0 THEN 0
  ELSE IF HexDigit(c2) < 0 THEN HexDigit(c1)
  ELSE 16 * HexDigit(c1) + HexDigit(c2)
parseBytes(hex) ==
  LET s == [k \in 1..Len(hex) |-> toLowerCase(hex[k])]
  IN [j \in 1..(Len(s) \div 2) |-> ParseHexPair(s[2 * j - 1], s[2 * j])]

\* ----------------------------------------------------------- hashSegment
\* the loop of hashSegment, from index i (0-based) with accumulator h (the
\* test h[2] >= 0 holds of every number: it has TLC evaluate the accumulator
\* at each iteration, not as one nested expression at the end)
RECURSIVE HashLoop(_, _, _, _)
HashLoop(bs, i, stop, h) ==
  IF h[2] >= 0 /\ i < stop /\ i < Len(bs)
  THEN HashLoop(bs, i + 1, stop, Plus(Plus(ShiftLeft(h, 5), h), Num(bs[i + 1])))
  ELSE h
\* the return without the conversion >>> 0
hashSegmentNoWrap(bs, start, length) == HashLoop(bs, start, start + length, Num(5381))
\* Math.abs(h >>> 0)
hashSegment(bs, start, length) == ToUint32(HashLoop(bs, start, start + length, Num(5381)))

\* ----------------------------------------------------------------- permIdx
\* an even multiplier
permIdxEven(i) == BitAnd(i * 72, 127)
permIdx(i) == BitAnd(i * 73, 127)

\* --------------------------------------------------- layout (lines 91-119)
thickness == 700
detail == 720
blocksPerSide == 32
nBlocks == 128

\* thousandths of a pixel
maxR(sz) == sz * 380
curveOuterMargin(sz) == Max(3 * thickness, sz * 50)
curveMaxPx(sz) == maxR(sz) - curveOuterMargin(sz)
borderThickness == (thickness * 9) \div 10

\* numerators over 4000 px
borderSize(sz) == sz * 3360
borderOffset(sz) == (sz * 4000 - borderSize(sz)) \div 2
\* the width taken from the length's factor
blockWidthAsLength(sz) == sz * 280
blockWidth(sz) == sz * 144
blockLength(sz) == sz * 280
blockStart(sz) == borderOffset(sz) + borderSize(sz)

\* r2(n) = n.toFixed(2) of a numerator over 4000: hundredths of a pixel
r2(num) == RoundDiv(num * 100, 4000)

\* keepout in 1/10000 px (lines 99-105)
keepoutOf(innerAccent, sz) ==
  LET k == IF innerAccent = 0 THEN sz * 1200
           ELSE IF innerAccent = 1 THEN sz * 1500
           ELSE IF innerAccent = 2 THEN sz * 600
           ELSE IF innerAccent = 3 THEN sz * 800
           ELSE IF innerAccent >= 5 /\ innerAccent <= 9 THEN sz * 1300
           ELSE 0
  IN IF k > 0 THEN Min(k, curveMaxPx(sz) * 4) ELSE 0
\* centerR = keepout * 0.75, in 1/1000000 px
centerR(keepout) == keepout * 75

\* the clamp of line 86 left out
ClampFreq1Missing(f, amplitude) == f
\* ------------------------------------------------ parameters (lines 83-89)
\* if (amplitude < 0.5 && freq1 > 4) freq1 = 4
ClampFreq1(f, amplitude) == IF amplitude < 50000 /\ f > 4 THEN 4 ELSE f
Parameters(bs, sz) ==
  LET f0          == ModNum(hashSegment(bs, 0, 8), 5) + 3
      pseudo      == ModNum(hashSegment(bs, 8, 8), 1024)
      amplitude   == ModNum(hashSegment(bs, 16, 8), 1000) * 35 + 35000
      innerAccent == ModNum(hashSegment(bs, 30, 2), 10)
  IN [freq1        |-> ClampFreq1(f0, amplitude),
      pseudo       |-> pseudo,
      amplitude    |-> amplitude,
      innerAccent  |-> innerAccent,
      centerHollow |-> BitAnd(hashSegment(bs, 29, 1)[2], 1) = 1,
      keepout      |-> keepoutOf(innerAccent, sz)]
NoParameters ==
  [freq1 |-> 0, pseudo |-> 0, amplitude |-> 0, innerAccent |-> 0,
   centerHollow |-> FALSE, keepout |-> 0]

\* nWaves and freq2 (lines 108-109)
nWavesOf(pseudo) == (ShiftRight(pseudo, 6) % 3) + 3
freq2Of(pseudo) == (BitAnd(ShiftRight(pseudo, 2), 15) % 5) + 4

\* ------------------------------------------------- tuneWaves (lines 31-57)
\* const minGapPx = Math.max(7.0 * thickness, 6.0), thousandths
minGapPx == Max(7 * thickness, 6000)
\* the gaps an iteration may measure (thousandths); 0 is any gap below 0.001
GapSamples == {0, 4500, 6000}
\* Math.min(1.25, ampScale * Math.sqrt(minGapPx / Math.max(minGap, 1e-6)))
AmpScaleStep(ampScale, minGap) ==
  SqrtUpTo((ampScale * ampScale * minGapPx) \div Max(minGap, 1), 125)
\* Math.min(1.7, gamma + 0.2)
GammaStep(gamma) == Min(170, gamma + 20)
\* the step of line 54 without its guard and floor
F1StepNoFloor(f1) == f1 - 1
\* else if (f1 > 3) f1 = Math.max(3, f1 - 1)
F1Step(f1) == IF f1 > 3 THEN Max(3, f1 - 1) ELSE f1
TuneStart(freq1) ==
  [f1 |-> freq1, gamma |-> 135, ampScale |-> 100, iter |-> 0, steps |-> <<>>]
NoTune == [f1 |-> 0, gamma |-> 0, ampScale |-> 0, iter |-> 0, steps |-> <<>>]
\* one pass of the loop body with the measured minGap
TuneIteration(t, minGap) ==
  IF minGap >= minGapPx
  THEN [t EXCEPT !.steps = Append(@, [iter |-> t.iter, minGap |-> minGap, step |-> "break"])]
  ELSE IF t.iter = 0
  THEN [t EXCEPT !.ampScale = AmpScaleStep(t.ampScale, minGap), !.iter = 1,
                 !.steps = Append(@, [iter |-> 0, minGap |-> minGap, step |-> "ampScale"])]
  ELSE IF t.iter = 1
  THEN [t EXCEPT !.gamma = GammaStep(t.gamma), !.iter = 2,
                 !.steps = Append(@, [iter |-> 1, minGap |-> minGap, step |-> "gamma"])]
  ELSE [t EXCEPT !.f1 = F1Step(t.f1), !.iter = t.iter + 1,
                 !.steps = Append(@, [iter |-> t.iter, minGap |-> minGap,
                                      step |-> IF F1Step(t.f1) # t.f1 THEN "f1" ELSE "none"])]

\* --------------------------------------------------------------- elements
\* one pushed string; x, y, w, h are hundredths of a pixel as printed
El(kind, x, y, w, h, n, fill) ==
  [kind |-> kind, x |-> x, y |-> y, w |-> w, h |-> h, n |-> n, fill |-> fill]
SvgOpen(sz) == El("svg", 0, 0, sz * 100, sz * 100, 0, "")
Background(sz) == El("background", 0, 0, sz * 100, sz * 100, 0, "white")
\* lines 126-132: <g>, 10 vertical and 10 horizontal lines (x, y, w, h hold
\* x1, y1, x2, y2), </g>
GridLines(sz) ==
  [k \in 1..20 |->
     LET i   == (k - 1) \div 2
         pos == RoundDiv((i + 1) * sz * 100, 10)
     IN IF k % 2 = 1 THEN El("line", pos, 0, pos, sz * 100, 0, "blue")
        ELSE El("line", 0, pos, sz * 100, pos, 0, "blue")]
Grid(sz) == <<El("g", 0, 0, 0, 0, 0, "")>> \o GridLines(sz) \o <<El("endg", 0, 0, 0, 0, 0, "")>>
Border(sz) ==
  El("border", r2(borderOffset(sz)), r2(borderOffset(sz)), r2(borderSize(sz)),
     r2(borderSize(sz)), 0, "none")
\* the loop bound i < detail
WavePathShort(w) == El("wave", 0, 0, 0, 0, Cardinality(0..(detail - 1)), "none")
\* lines 141-150: one path of detail + 1 points (i = 0..detail)
WavePath(w) == El("wave", 0, 0, 0, 0, Cardinality(0..detail), "none")

\* the byte index taken as i >> 2: all 32 bytes are read
BitIsSetWide(bs, i) ==
  LET byteIdx == ShiftRight(i, 2)
      bitIdx  == BitAnd(i, 7)
  IN byteIdx < Len(bs) /\ BitAnd(ShiftRight(bs[byteIdx + 1], bitIdx), 1) = 1
\* line 157: byteIdx < bytes.length && ((bytes[byteIdx] >> bitIdx) & 1)
BitIsSet(bs, i) ==
  LET byteIdx == ShiftRight(i, 3)
      bitIdx  == BitAnd(i, 7)
  IN byteIdx < Len(bs) /\ BitAnd(ShiftRight(bs[byteIdx + 1], bitIdx), 1) = 1
\* lines 158-176: the rectangle of marker i
BlockRect(i, sz) ==
  LET pi        == permIdx(i)
      side      == pi \div blocksPerSide
      along     == borderOffset(sz) + ((pi % blocksPerSide) * borderSize(sz)) \div blocksPerSide
                   - blockWidth(sz) \div 2
  IN IF side = 0
     THEN El("block", r2(along), r2(borderOffset(sz) - blockLength(sz)),
             r2(blockWidth(sz)), r2(blockLength(sz)), i, "black")
     ELSE IF side = 1
     THEN El("block", r2(blockStart(sz)), r2(along),
             r2(blockLength(sz)), r2(blockWidth(sz)), i, "black")
     ELSE IF side = 2
     THEN El("block", r2(along), r2(blockStart(sz)),
             r2(blockWidth(sz)), r2(blockLength(sz)), i, "black")
     ELSE El("block", r2(borderOffset(sz) - blockLength(sz)), r2(along),
             r2(blockLength(sz)), r2(blockWidth(sz)), i, "black")

\* lines 181-231: the elements of the center shape; w holds the printed radius
\* of a circle, n the number of vertices of a path
CenterShape(p) ==
  LET cR     == centerR(p.keepout)
      hollow == IF p.centerHollow THEN "none" ELSE "black"
      ring(j) == El("glyph-ring", 0, 0, RoundDiv(cR * (4 + (j - 1) * 3), 100000), 0, 0, "none")
  IN IF cR > 0
     THEN IF p.innerAccent = 0 THEN <<El("glyph-star", 0, 0, 0, 0, 10, hollow)>>
          ELSE IF p.innerAccent = 1 THEN <<El("glyph-triangle", 0, 0, 0, 0, 3, hollow)>>
          ELSE IF p.innerAccent = 2
          THEN <<El("glyph-dot", 0, 0, RoundDiv(cR, 10000), 0, 0, "black")>>
          ELSE IF p.innerAccent = 3 THEN <<ring(1), ring(2), ring(3)>>
          ELSE IF p.innerAccent >= 5 /\ p.innerAccent <= 9
          THEN <<El("glyph-polygon", 0, 0, 0, 0, p.innerAccent - 1, hollow)>>
          ELSE <<>>
     ELSE <<>>
SvgClose == El("endsvg", 0, 0, 0, 0, 0, "")

\* ----------------------------------------------------------------- inputs
HexChars == Digits \o SubSeq(LowerLetters, 1, 6)
HexPair(v) == <<HexChars[(v \div 16) + 1], HexChars[(v % 16) + 1]>>
\* a 64-character hash: bytes 0-7 are a, bytes 8-15 b, bytes 16-29 c, then d, e
HashOf(a, b, c, d, e) ==
  LET bs == Rep(a, 8) \o Rep(b, 8) \o Rep(c, 14) \o <<d, e>>
  IN [k \in 1..64 |-> HexPair(bs[((k - 1) \div 2) + 1])[((k - 1) % 2) + 1]]
UpperCased(s) == [k \in 1..Len(s) |-> toUpperCase(s[k])]
ValidHashes ==
  { HashOf(0, 0, 0, 0, 0), HashOf(255, 255, 255, 255, 255),
    HashOf(90, 19, 165, 195, 127), HashOf(7, 254, 1, 128, 1),
    HashOf(165, 60, 1, 19, 16), HashOf(90, 128, 60, 1, 195),
    HashOf(2, 255, 0, 195, 19), HashOf(16, 165, 0, 2, 0),
    HashOf(128, 1, 60, 127, 128), HashOf(165, 16, 60, 19, 0),
    HashOf(90, 128, 255, 90, 1), HashOf(255, 0, 16, 0, 0),
    UpperCased(HashOf(255, 255, 255, 255, 255)),
    UpperCased(HashOf(165, 60, 1, 19, 16)) }
InvalidHashes ==
  { <<>>, Rep("f", HashLen - 1), Rep("f", HashLen + 1),
    Rep("0", HashLen - 1) \o <<"g">>, <<"G">> \o Rep("0", HashLen - 1),
    Rep("0", HashLen) \o <<"\n">>, <<" ">> \o Rep("0", HashLen - 1) }
Hashes == ValidHashes \cup InvalidHashes
Sizes == {5, 33, 120}

\* ------------------------------------------------------------------- Init
HashIdle == hIn = [bytes |-> <<>>, start |-> 0, length |-> 0]
            /\ hOut = [pc |-> "idle", value |-> <<0, 0>>]
CanvasIdle == cv = <<>>
GenIdle ==
  /\ pc = "idle" /\ hashHex = <<>> /\ size = 0 /\ showGrid = FALSE /\ err = ""
  /\ bytes = <<>> /\ prm = NoParameters /\ tune = NoTune
  /\ waves = [nWaves |-> 0, freq2 |-> 0] /\ parts = <<>> /\ idx = 0 /\ result = <<>>

Init ==
  /\ pc = "call"
  /\ hashHex \in Hashes
  /\ size \in Sizes
  /\ showGrid \in BOOLEAN
  /\ err = ""
  /\ bytes = <<>>
  /\ prm = NoParameters
  /\ tune = NoTune
  /\ waves = [nWaves |-> 0, freq2 |-> 0]
  /\ parts = <<>>
  /\ idx = 0
  /\ result = <<>>
  /\ HashIdle
  /\ CanvasIdle

\* ------------------------------------------ generateIdentipattern, by step
\* lines 77-105: the check of the hash, the bytes, the parameters
Validate ==
  /\ pc = "call"
  /\ IF ~HashRegexTest(hashHex)
     THEN /\ pc' = "threw"
          /\ err' = "hash must be 64 hex characters"
          /\ UNCHANGED <<bytes, prm, tune>>
     ELSE /\ bytes' = parseBytes(hashHex)
          /\ prm' = Parameters(bytes', size)
          /\ tune' = TuneStart(prm'.freq1)
          /\ pc' = "tune"
          /\ err' = ""
  /\ UNCHANGED <<hashHex, size, showGrid, waves, parts, idx, result, hIn, hOut, cv>>

\* line 107: one iteration of the loop of tuneWaves; the loop ends on break
\* or after the third iteration
TuneLoop ==
  /\ pc = "tune"
  /\ tune.iter < 3
  /\ \E minGap \in GapSamples :
       /\ tune' = TuneIteration(tune, minGap)
       /\ pc' = IF minGap >= minGapPx \/ tune'.iter >= 3 THEN "compose" ELSE "tune"
  /\ UNCHANGED <<hashHex, size, showGrid, err, bytes, prm, waves, parts, idx, result, hIn, hOut, cv>>

\* lines 108-123
EmitHead ==
  /\ pc = "compose"
  /\ waves' = [nWaves |-> nWavesOf(prm.pseudo), freq2 |-> freq2Of(prm.pseudo)]
  /\ parts' = <<SvgOpen(size), Background(size)>>
  /\ pc' = "grid"
  /\ UNCHANGED <<hashHex, size, showGrid, err, bytes, prm, tune, idx, result, hIn, hOut, cv>>

\* lines 125-133
EmitGrid ==
  /\ pc = "grid"
  /\ parts' = IF showGrid THEN parts \o Grid(size) ELSE parts
  /\ pc' = "border"
  /\ UNCHANGED <<hashHex, size, showGrid, err, bytes, prm, tune, waves, idx, result, hIn, hOut, cv>>

\* line 136
EmitBorder ==
  /\ pc = "border"
  /\ parts' = Append(parts, Border(size))
  /\ pc' = "waves"
  /\ idx' = 0
  /\ UNCHANGED <<hashHex, size, showGrid, err, bytes, prm, tune, waves, result, hIn, hOut, cv>>

\* lines 139-151
WaveLoop ==
  /\ pc = "waves"
  /\ IF idx < waves.nWaves
     THEN /\ parts' = Append(parts, WavePath(idx))
          /\ idx' = idx + 1
          /\ pc' = "waves"
     ELSE /\ idx' = 0
          /\ pc' = "blocks"
          /\ UNCHANGED parts
  /\ UNCHANGED <<hashHex, size, showGrid, err, bytes, prm, tune, waves, result, hIn, hOut, cv>>

\* lines 154-178
BlockLoop ==
  /\ pc = "blocks"
  /\ IF idx < nBlocks
     THEN /\ parts' = IF BitIsSet(bytes, idx) THEN Append(parts, BlockRect(idx, size))
                      ELSE parts
          /\ idx' = idx + 1
          /\ pc' = "blocks"
     ELSE /\ pc' = "center"
          /\ UNCHANGED <<parts, idx>>
  /\ UNCHANGED <<hashHex, size, showGrid, err, bytes, prm, tune, waves, result, hIn, hOut, cv>>

\* lines 181-234
EmitCenter ==
  /\ pc = "center"
  /\ parts' = parts \o CenterShape(prm) \o <<SvgClose>>
  /\ result' = parts'
  /\ pc' = "done"
  /\ UNCHANGED <<hashHex, size, showGrid, err, bytes, prm, tune, waves, idx, hIn, hOut, cv>>

Next ==
  \/ Validate
  \/ TuneLoop
  \/ EmitHead
  \/ EmitGrid
  \/ EmitBorder
  \/ WaveLoop
  \/ BlockLoop
  \/ EmitCenter

Spec == Init /\ [][Next]_vars

\* ------------------------------------------------- hashSegment called alone
ByteVals == {0, 255}
ByteSeqs == UNION {[1..n -> ByteVals] : n \in 0..MaxLen}

InitHash ==
  /\ GenIdle
  /\ CanvasIdle
  /\ hIn \in [bytes : ByteSeqs, start : 0..MaxLen, length : 0..(MaxLen + 1)]
  /\ hOut = [pc |-> "call", value |-> <<0, 0>>]

HashCall ==
  /\ hOut.pc = "call"
  /\ hOut' = [pc |-> "returned", value |-> hashSegment(hIn.bytes, hIn.start, hIn.length)]
  /\ UNCHANGED <<hIn, cv>>
  /\ UNCHANGED genVars

NextHash == HashCall

SpecHash == InitHash /\ [][NextHash]_vars

\* ------------------------------------------------------------- toCanvas
\* part_000 (facades/canvas): each call creates an object URL, sets onload and
\* starts the decode by img.src = url; the browser later fires load or error
CanvasHashes == {HashOf(0, 0, 0, 0, 0), Rep("f", HashLen - 1)}
Calls == 1..MaxCalls

InitCanvas ==
  /\ GenIdle
  /\ HashIdle
  /\ cv \in [Calls -> [pc : {"idle"}, hash : CanvasHashes, has2d : BOOLEAN,
                       url : {"none"}, events : {<<>>}]]

\* lines 3-14 up to the return: toSvg throws on a bad hash before the URL is
\* created (svg.ts line 6 calls generateIdentipattern)
ToCanvas(c) ==
  /\ cv[c].pc = "idle"
  /\ cv' = [cv EXCEPT ![c] =
       IF ~HashRegexTest(cv[c].hash)
       THEN [@ EXCEPT !.pc = "threw"]
       ELSE [@ EXCEPT !.pc = "decoding", !.url = "live",
                      !.events = <<"createObjectURL", "src">>]]
  /\ UNCHANGED <<hIn, hOut>>
  /\ UNCHANGED genVars

\* lines 7-12: the onload handler, run by the load event
OnLoad(c) ==
  /\ cv[c].pc = "decoding"
  /\ cv' = [cv EXCEPT ![c] =
       [@ EXCEPT !.pc = "loaded", !.url = "revoked",
                 !.events = @ \o <<"load">>
                            \o (IF cv[c].has2d THEN <<"drawImage">> ELSE <<>>)
                            \o <<"revokeObjectURL">>]]
  /\ UNCHANGED <<hIn, hOut>>
  /\ UNCHANGED genVars

\* the decode fails: the error event finds no handler (none is set in lines 3-14)
OnError(c) ==
  /\ cv[c].pc = "decoding"
  /\ cv' = [cv EXCEPT ![c] = [@ EXCEPT !.pc = "failed", !.events = Append(@, "error")]]
  /\ UNCHANGED <<hIn, hOut>>
  /\ UNCHANGED genVars

NextCanvas ==
  \/ \E c \in Calls : ToCanvas(c)
  \/ \E c \in Calls : OnLoad(c)
  \/ \E c \in Calls : OnError(c)

SpecCanvas == InitCanvas /\ [][NextCanvas]_vars

\* ================================================================= claims
HexAlphabet ==
  {"0", "1", "2", "3", "4", "5", "6", "7", "8", "9",
   "a", "b", "c", "d", "e", "f", "A", "B", "C", "D", "E", "F"}
Is64Hex(s) == Len(s) = 64 /\ \A k \in 1..Len(s) : s[k] \in HexAlphabet
CountKind(seq, kind) == Cardinality({j \in DOMAIN seq : seq[j].kind = kind})
IsGlyph(e) ==
  e.kind \in {"glyph-star", "glyph-triangle", "glyph-dot", "glyph-ring", "glyph-polygon"}
IsPrimitive(e) == e.kind \in {"background", "line", "border", "wave", "block"} \/ IsGlyph(e)
Primitives(seq) == SelectSeq(seq, IsPrimitive)
IsBlock(e) == e.kind = "block"
Blocks(seq) == SelectSeq(seq, IsBlock)
Running == pc \in {"tune", "compose", "grid", "border", "waves", "blocks", "center", "done"}

\* C1: generateIdentipattern throws exactly when the hash is not 64
\* hexadecimal characters (either case); it throws before anything is pushed,
\* and on a 64-hex hash it runs on without error to a returned artifact.
C1_ValidationIff ==
  /\ pc = "threw" => ~Is64Hex(hashHex) /\ err # "" /\ parts = <<>> /\ result = <<>>
  /\ Running => Is64Hex(hashHex) /\ err = ""
  /\ (Is64Hex(hashHex) /\ pc # "done") =>
       /\ pc \in {"call", "tune", "compose", "grid", "border", "waves", "blocks", "center"}
       /\ pc = "tune" => tune.iter < 3
  /\ pc = "done" => result # <<>> /\ result[Len(result)].kind = "endsvg"
\* a 64-character string with one character outside the class is rejected
C1_Witness == pc = "threw" /\ Len(hashHex) = HashLen

\* C2: the number of marker rectangles is the number of set bits among bits
\* 0..127 (bit i mod 8 of byte i div 8) of the first 16 bytes; at index idx of
\* the loop, the number of set bits below idx.
SetBitsBelow(bs, n) ==
  Cardinality({i \in 0..(n - 1) : (bs[(i \div 8) + 1] \div Pow2(i % 8)) % 2 = 1})
C2_MarkerCount ==
  /\ pc = "blocks" => CountKind(parts, "block") = SetBitsBelow(bytes, idx)
  /\ pc \in {"center", "done"} => CountKind(parts, "block") = SetBitsBelow(bytes, 128)
\* a finished artifact of a hash whose bytes 16..31 are not all zero, with
\* some but not all markers
C2_Witness ==
  /\ pc = "done"
  /\ CountKind(parts, "block") \notin {0, 128}
  /\ \E k \in 17..32 : bytes[k] # 0

\* C3: permIdx maps 0..127 one-to-one onto 0..127: at index idx of the block
\* loop the position of idx is in range, and after the loop the 128 indices
\* have taken 128 distinct positions, all of 0..127.
C3_PermIdxBijection ==
  pc = "blocks" =>
    /\ idx < 128 => permIdx(idx) \in 0..127
    /\ idx = 128 => /\ Cardinality({permIdx(j) : j \in 0..127}) = 128
                    /\ {permIdx(j) : j \in 0..127} = 0..127
C3_Witness == pc = "blocks" /\ idx = 128 /\ CountKind(parts, "block") = 128

\* C4: a center glyph is in the artifact exactly when innerAccent is not 4,
\* for every valid hash and every positive size.
C4_GlyphIffAccent ==
  pc = "done" => ((\E j \in DOMAIN parts : IsGlyph(parts[j])) <=> prm.innerAccent # 4)

\* C5: the derived parameters are within their bounds: freq1 in 3..7, and at
\* most 4 when amplitude < 0.5; pseudo in 0..1023; amplitude in [0.35, 0.70];
\* innerAccent in 0..9; nWaves in 3..5; freq2 in 4..8.
C5_ParameterBounds ==
  /\ Running =>
       /\ prm.freq1 \in 3..7
       /\ prm.amplitude < 50000 => prm.freq1 <= 4
       /\ prm.pseudo \in 0..1023
       /\ prm.amplitude >= 35000 /\ prm.amplitude <= 70000
       /\ prm.innerAccent \in 0..9
  /\ pc \in {"grid", "border", "waves", "blocks", "center", "done"} =>
       /\ waves.nWaves \in {3, 4, 5}
       /\ waves.freq2 \in 4..8
\* a hash whose first window gives a frequency above 4 with amplitude < 0.5
C5_Witness ==
  /\ pc = "grid"
  /\ prm.amplitude < 50000
  /\ ModNum(hashSegment(bytes, 0, 8), 5) + 3 > 4

\* C6: the primitives come in the fixed order background, grid lines, border,
\* waves, markers, glyph: the first is the full-canvas background, no
\* primitive of a later batch precedes one of an earlier batch, and the
\* finished artifact has one background, 20 grid lines exactly when showGrid,
\* one border, and nWaves paths of 721 points each.
Batch(e) ==
  IF e.kind = "background" THEN 1
  ELSE IF e.kind = "line" THEN 2
  ELSE IF e.kind = "border" THEN 3
  ELSE IF e.kind = "wave" THEN 4
  ELSE IF e.kind = "block" THEN 5
  ELSE 6
Position(seq, x) == IF \E k \in DOMAIN seq : seq[k] = x
                    THEN CHOOSE k \in DOMAIN seq : seq[k] = x ELSE 0
C7_ReleasedOnEveryExit ==
  \A c \in DOMAIN cv :
    /\ (cv[c].pc \in {"loaded", "failed"} /\ cv[c].url # "none") => cv[c].url = "revoked"
    /\ Position(cv[c].events, "drawImage") > 0 =>
         /\ Position(cv[c].events, "load") > 0
         /\ Position(cv[c].events, "load") < Position(cv[c].events, "drawImage")
         /\ Position(cv[c].events, "drawImage") < Position(cv[c].events, "revokeObjectURL")

\* C8 (as claimed): in the finished artifact the rectangles of any two
\* distinct set bits do not intersect.
Overlap(a, b) ==
  /\ a.x < b.x + b.w /\ b.x < a.x + a.w
  /\ a.y < b.y + b.h /\ b.y < a.y + a.h
C8_NoTwoMarkersIntersect ==
  pc = "done" =>
    LET bl == Blocks(parts)
    IN \A j \in DOMAIN bl : \A k \in DOMAIN bl : j < k => ~Overlap(bl[j], bl[k])
\* C8 (amended): any two markers are at different positions, and two markers
\* intersect only if their slots are neighbours on one side of the border or
\* are the first slots of the top and the left side (the top-left corner).
NeighbourSlots(i, j) ==
  LET p == permIdx(i)
      q == permIdx(j)
  IN \/ p \div 32 = q \div 32 /\ (p - q = 1 \/ q - p = 1)
     \/ {p, q} = {0, 96}
C8_MarkersIntersectOnlyNeighbours ==
  pc = "done" =>
    LET bl == Blocks(parts)
    IN \A j \in DOMAIN bl : \A k \in DOMAIN bl : j < k =>
         /\ <<bl[j].x, bl[j].y>> # <<bl[k].x, bl[k].y>>
         /\ Overlap(bl[j], bl[k]) => NeighbourSlots(bl[j].n, bl[k].n)
\* a finished artifact with two intersecting markers and two markers that are
\* not neighbours
C8_Witness ==
  /\ pc = "done"
  /\ LET bl == Blocks(parts)
     IN /\ \E j \in DOMAIN bl : \E k \in DOMAIN bl : j < k /\ Overlap(bl[j], bl[k])
        /\ \E j \in DOMAIN bl : \E k \in DOMAIN bl :
             j < k /\ ~NeighbourSlots(bl[j].n, bl[k].n)

\* C9: hashSegment returns the unsigned 32-bit value of acc = acc * 33 + byte
\* (mod 2^32) from 5381 over the window clipped to the array.
Step33(u, b) ==
  LET lo == u[2] * 33 + b
  IN <<(u[1] * 33 + lo \div W16) % W16, lo % W16>>
RECURSIVE Djb2(_, _, _)
Djb2(bs, start, stop) ==
  IF stop <= start THEN <<0, 5381>> ELSE Step33(Djb2(bs, start, stop - 1), bs[stop])
C9_HashSegmentIsDjb2 ==
  hOut.pc = "returned" =>
    hOut.value = Djb2(hIn.bytes, hIn.start, Min(hIn.start + hIn.length, Len(hIn.bytes)))
\* a call whose accumulator left the 32-bit range before the final >>> 0
C9_Witness ==
  /\ hOut.pc = "returned"
  /\ hIn.length >= 5
  /\ HashLoop(hIn.bytes, hIn.start, hIn.start + hIn.length, Num(5381))[1] \notin 0..(W16 - 1)

\* C10: tuneWaves runs at most 3 iterations, each taking at most one
\* corrective step, ampScale in iteration 0, gamma in 1, f1 in 2, and nothing
\* after a break; the f1 returned is in 3..freq1 and at most 1 below freq1,
\* and is below freq1 only when all three iterations missed the gap.
C10_TuneWaves ==
  Running =>
    LET st == tune.steps
    IN /\ Len(st) <= 3 /\ tune.iter <= 3
       /\ \A k \in DOMAIN st :
            /\ st[k].iter = k - 1
            /\ st[k].step \in (IF k = 1 THEN {"ampScale", "break"}
                               ELSE IF k = 2 THEN {"gamma", "break"}
                               ELSE {"f1", "none", "break"})
            /\ st[k].step = "break" <=> st[k].minGap >= minGapPx
            /\ st[k].step = "break" => k = Len(st)
       /\ tune.ampScale # 100 => Len(st) >= 1 /\ st[1].step = "ampScale"
       /\ tune.gamma # 135 => Len(st) >= 2 /\ st[2].step = "gamma"
       /\ tune.f1 # prm.freq1 => Len(st) = 3 /\ st[3].step = "f1"
       /\ 3 <= tune.f1 /\ tune.f1 <= prm.freq1 /\ prm.freq1 - tune.f1 <= 1
       /\ tune.f1 < prm.freq1 => Len(st) = 3 /\ \A k \in 1..3 : st[k].minGap < minGapPx
       /\ tune.ampScale >= 100 /\ tune.ampScale <= 125
       /\ tune.gamma >= 135 /\ tune.gamma <= 170
       /\ pc # "tune" => Len(st) = 3 \/ (st # <<>> /\ st[Len(st)].step = "break")
\* a return after three missed iterations with f1 lowered
C10_Witness == pc = "compose" /\ tune.f1 = prm.freq1 - 1 /\ Len(tune.steps) = 3

====
